---- MODULE Spec2Model ----
(***************************************************************************)
(* devtogo: `push` synchronises a directory of markdown files with the     *)
(* articles of a dev.to account (src/src/push.rs).                         *)
(*                                                                         *)
(* Text is modelled as a sequence of one-character strings, a document as  *)
(* a sequence of lines, a YAML value as a record [t, s] (type tag and      *)
(* scalar text) and an Option as a sequence of length 0 or 1.              *)
(***************************************************************************)
EXTENDS Integers, Sequences, FiniteSets, TLC

\* ------------------------------------------------------------------ bounds
MaxEntries == 2       \* directory entries yielded by the walk
MaxArticles == 2      \* articles in the fetched remote index
MaxBlock == 2         \* lines of a metadata block

\* again::retry with the default RetryPolicy: 5 retries after the first attempt
MaxRetries == 5

\* ------------------------------------------------------------ YAML values
None == <<>>
Some(v) == <<v>>

YNull == [t |-> "Null", s |-> <<>>]
YStr(s) == [t |-> "String", s |-> s]
YBool(b) == [t |-> "Boolean", s |-> IF b THEN <<"t", "r", "u", "e">> ELSE <<"f", "a", "l", "s", "e">>]
YInt(s) == [t |-> "Integer", s |-> s]
\* a nested collection used as a value
YArr == [t |-> "Array", s |-> <<>>]

\* Yaml::as_str
as_str(v) == IF v.t = "String" THEN Some(v.s) ELSE None
\* Yaml::as_bool
as_bool(v) == IF v.t = "Boolean" THEN Some(v.s = <<"t", "r", "u", "e">>) ELSE None

\* ------------------------------------------------------------------ lines
Delim == [kind |-> "delim", key |-> "---", val |-> YNull]
KV(k, v) == [kind |-> "kv", key |-> k, val |-> v]
Scalar(v) == [kind |-> "scalar", key |-> "", val |-> v]
\* a line the YAML scanner rejects
Junk == [kind |-> "junk", key |-> "@", val |-> YNull]
Text(s) == [kind |-> "text", key |-> s, val |-> YNull]

\* a parsed YAML document: a scalar, or a Hash with entries h
YDoc(v) == [t |-> v.t, s |-> v.s, h |-> <<>>]
YHash(h) == [t |-> "Hash", s |-> <<>>, h |-> h]

\* ------------------------------------------------- frontmatter (the crate)
Min(S) == CHOOSE x \in S : \A y \in S : x <= y
Max(S) == CHOOSE x \in S : \A y \in S : x >= y

\* frontmatter::find_yaml_block: the text starts with "---\n" and a second
\* "---\n" follows; the block lies between the two
find_yaml_block(content) ==
    IF Len(content) >= 1 /\ content[1] = Delim
    THEN LET ends == {j \in 2..Len(content) : content[j] = Delim}
         IN IF ends = {} THEN None ELSE Some(Min(ends))
    ELSE None

\* YamlLoader::load_from_str on the lines of the block
load_from_str(block) ==
    IF \E i \in DOMAIN block : block[i].kind = "junk"
    THEN [ok |-> FALSE, doc |-> YDoc(YNull)]
    ELSE IF block = <<>>
    THEN [ok |-> TRUE, doc |-> YDoc(YNull)]
    ELSE IF \A i \in DOMAIN block : block[i].kind = "kv"
    THEN [ok |-> TRUE, doc |-> YHash(block)]
    ELSE IF Len(block) = 1 /\ block[1].kind = "scalar"
    THEN [ok |-> TRUE, doc |-> YDoc(block[1].val)]
    ELSE IF Len(block) = 1 /\ block[1].kind = "text"
    THEN [ok |-> TRUE, doc |-> YDoc(YStr(<<block[1].key>>))]
    ELSE [ok |-> FALSE, doc |-> YDoc(YNull)]

\* frontmatter::parse_and_find_content: Err(ScanError), Ok((None, text)) or
\* Ok((Some(yaml), rest))
parse_and_find_content(content) ==
    LET blk == find_yaml_block(content)
    IN IF blk = None
       THEN [ok |-> TRUE, front |-> None, back |-> content]
       ELSE LET e == blk[1]
                loaded == load_from_str(SubSeq(content, 2, e - 1))
            IN IF loaded.ok
               THEN [ok |-> TRUE, front |-> Some(loaded.doc),
                     back |-> SubSeq(content, e + 1, Len(content))]
               ELSE [ok |-> FALSE, front |-> None, back |-> <<>>]

\* ------------------------------------------------------------- Frontmatter
\* Frontmatter::default()
DefaultFrontmatter ==
    [title |-> <<>>, published |-> None, tags |-> None, date |-> None,
     series |-> None, canonical_url |-> None, cover_image |-> None]

\* mutant: an absent `published` counts as published (unwrap_or(true))
publish_status_default_true(fm) ==
    IF fm.published = None \/ fm.published[1] THEN "Published" ELSE "Draft"

\* Frontmatter::publish_status
publish_status(fm) ==
    IF fm.published # None /\ fm.published[1] THEN "Published" ELSE "Draft"

\* hash.get(&Yaml::String(name)); a repeated key keeps its last value
hash_get(hash, name) ==
    LET at == {i \in DOMAIN hash : hash[i].key = name}
    IN IF at = {} THEN None ELSE Some(hash[Max(at)].val)

\* the closure `string` of from_file
string(hash, name) ==
    LET v == hash_get(hash, name) IN IF v = None THEN None ELSE as_str(v[1])

\* the closure `boolean` of from_file
boolean(hash, name) ==
    LET v == hash_get(hash, name) IN IF v = None THEN None ELSE as_bool(v[1])

Digits == {"0", "1", "2", "3", "4", "5", "6", "7", "8", "9"}
DigitVal(c) ==
    CASE c = "0" -> 0 [] c = "1" -> 1 [] c = "2" -> 2 [] c = "3" -> 3 [] c = "4" -> 4
      [] c = "5" -> 5 [] c = "6" -> 6 [] c = "7" -> 7 [] c = "8" -> 8 [] OTHER -> 9
Num2(s, i) == 10 * DigitVal(s[i]) + DigitVal(s[i + 1])
AllDigits(s, I) == \A i \in I : s[i] \in Digits

\* DateTime::parse_from_rfc3339(value).is_ok(), on timestamps without a
\* fractional second: YYYY-MM-DDTHH:MM:SS followed by Z or +HH:MM / -HH:MM
parse_from_rfc3339_ok(s) ==
    /\ Len(s) \in {20, 25}
    /\ AllDigits(s, {1, 2, 3, 4, 6, 7, 9, 10, 12, 13, 15, 16, 18, 19})
    /\ s[5] = "-" /\ s[8] = "-" /\ s[11] \in {"T", "t"}
    /\ s[14] = ":" /\ s[17] = ":"
    /\ Num2(s, 6) \in 1..12 /\ Num2(s, 9) \in 1..31
    /\ Num2(s, 12) \in 0..23 /\ Num2(s, 15) \in 0..59 /\ Num2(s, 18) \in 0..60
    /\ IF Len(s) = 20
       THEN s[20] \in {"Z", "z"}
       ELSE /\ s[20] \in {"+", "-"}
            /\ AllDigits(s, {21, 22, 24, 25})
            /\ s[23] = ":"
            /\ Num2(s, 21) \in 0..23 /\ Num2(s, 24) \in 0..59

Fail(e) == [ok |-> FALSE, err |-> e, fm |-> DefaultFrontmatter, back |-> <<>>]

\* mutant: a missing title becomes the empty title (unwrap_or_default)
from_file_default_title(metadata) ==
    IF metadata.t # "Hash" THEN Fail("not_well_formatted")
    ELSE LET hash == metadata.h
             title == string(hash, "title")
             date == string(hash, "date")
         IN IF date # None /\ ~parse_from_rfc3339_ok(date[1])
            THEN Fail("invalid_date")
            ELSE [ok |-> TRUE, err |-> "", back |-> <<>>,
                  fm |-> [DefaultFrontmatter EXCEPT
                             !.title = IF title = None THEN <<>> ELSE title[1],
                             !.date = date]]

\* mutant: the date is not validated
from_file_any_date(metadata) ==
    IF metadata.t # "Hash" THEN Fail("not_well_formatted")
    ELSE LET hash == metadata.h
             title == string(hash, "title")
         IN IF title = None THEN Fail("missing_title")
            ELSE [ok |-> TRUE, err |-> "", back |-> <<>>,
                  fm |-> [DefaultFrontmatter EXCEPT !.title = title[1],
                                                    !.date = string(hash, "date")]]

\* Frontmatter::from_file; `back` is filled in by extract
from_file(metadata) ==
    IF metadata.t # "Hash" THEN Fail("not_well_formatted")
    ELSE LET hash == metadata.h
             title == string(hash, "title")
             date == string(hash, "date")
         IN IF title = None THEN Fail("missing_title")
            ELSE IF date # None /\ ~parse_from_rfc3339_ok(date[1])
            THEN Fail("invalid_date")
            ELSE [ok |-> TRUE, err |-> "", back |-> <<>>,
                  fm |-> [title |-> title[1],
                          published |-> boolean(hash, "published"),
                          tags |-> string(hash, "tags"),
                          date |-> date,
                          series |-> string(hash, "series"),
                          canonical_url |-> string(hash, "canonical_url"),
                          cover_image |-> string(hash, "cover_image")]]

\* extract(name, content)
extract(content) ==
    LET parsed == parse_and_find_content(content)
    IN IF ~parsed.ok THEN Fail("scan_error")
       ELSE IF parsed.front = None THEN Fail("missing_frontmatter")
       ELSE LET r == from_file(parsed.front[1])
            IN IF r.ok THEN [r EXCEPT !.back = parsed.back] ELSE r

\* ------------------------------------------------------------------ hasher
\* Sha256, taken to be collision free: the digest of a byte string is a
\* value that is equal for equal inputs only
Sha256(bytes) == <<"sha256", bytes>>
\* Sha256::new()
NewHasher == <<>>
\* Digest::update
update(h, data) == h \o data
\* mutant: finalize without reset, the hasher keeps what was fed
finalize_keeping(h) == [digest |-> Sha256(h), hasher |-> h]
\* Digest::finalize_reset: the digest of what was fed, and the hasher reset
finalize_reset(h) == [digest |-> Sha256(h), hasher |-> NewHasher]

\* mutant: the local digest is taken of the document without its frontmatter
differ_body_only(h, content, body) ==
    LET local == finalize_reset(update(h, extract(content).back))
        remote == finalize_reset(update(local.hasher, body))
    IN [differ |-> local.digest # remote.digest, hasher |-> remote.hasher]

\* the block `differ` of run: both digests are taken with the shared hasher
differ(h, content, body) ==
    LET local == finalize_reset(update(h, content))
        remote == finalize_reset(update(local.hasher, body))
    IN [differ |-> local.digest # remote.digest, hasher |-> remote.hasher]

\* mutant: the last article of that title is taken
find_last(articles, title) ==
    LET at == {i \in DOMAIN articles : articles[i].title = title}
    IN IF at = {} THEN 0 ELSE Max(at)

\* articles.iter().find(|a| a.title == meta.title): the position of the first
\* article with that title, 0 when there is none
find(articles, title) ==
    LET at == {i \in DOMAIN articles : articles[i].title = title}
    IN IF at = {} THEN 0 ELSE Min(at)

Posting == [kind |-> "Posting", id |-> 0]
Syncing(remote) == [kind |-> "Syncing", id |-> remote.id]
Uploaded == [kind |-> "Uploaded", id |-> 0]
NoStatus == [kind |-> "None", id |-> 0]

\* the `status` match of run: the UploadStatus and the hasher it leaves
classify(h, articles, content, fm) ==
    LET i == find(articles, fm.title)
    IN IF i = 0
       THEN [status |-> Posting, hasher |-> h]
       ELSE LET d == differ(h, content, articles[i].body_markdown)
            IN [status |-> IF d.differ THEN Syncing(articles[i]) ELSE Uploaded,
                hasher |-> d.hasher]

\* Path::extension on a file name given as its pieces, "." being a piece: the
\* part after the last dot; None without a dot, for "..", and for a name whose
\* only dot is its first character
extension(name) ==
    LET dots == {i \in DOMAIN name : name[i] = "."}
    IN IF dots = {} \/ name = <<".", ".">> THEN None
       ELSE IF Max(dots) = 1 THEN None
       ELSE IF Max(dots) = Len(name) THEN Some("")
       ELSE Some(name[Len(name)])

\* mutant: directories are not excluded
valid_path_any_kind(path) ==
    \E i \in DOMAIN path.ext : path.ext[i] \in {"md", "markdown"}

\* valid_path
valid_path(path) ==
    /\ ~path.is_dir
    /\ \E i \in DOMAIN path.ext : path.ext[i] \in {"md", "markdown"}

\* mutant: the dry-run flag is not consulted
writes_in_dryrun(dry, status) == status.kind \in {"Syncing", "Posting"}

\* `if !dryrun { match status { Syncing | Posting => ..., _ => () } }`
writes(dry, status) == ~dry /\ status.kind \in {"Syncing", "Posting"}

\* mutant: the body without its frontmatter block is sent
request_body_only(k, status, content) ==
    [k |-> k,
     method |-> IF status.kind = "Syncing" THEN "PUT" ELSE "POST",
     id |-> status.id,
     body_markdown |-> extract(content).back]

\* the request put / post sends for the file at position k
request(k, status, content) ==
    [k |-> k,
     method |-> IF status.kind = "Syncing" THEN "PUT" ELSE "POST",
     id |-> status.id,
     body_markdown |-> content]

\* again::retry: a failed attempt is repeated while the policy has a backoff
\* left, max_retries of them
retry_again(n) == n < MaxRetries

\* ------------------------------------------------------------------ inputs
TitleA == <<"A">>
TitleB == <<"B">>
GoodDate == <<"2", "0", "2", "1", "-", "0", "1", "-", "0", "1", "T",
              "0", "0", ":", "0", "0", ":", "0", "0", "Z">>
BadDate == <<"n", "o", "t", "-", "a", "-", "d", "a", "t", "e">>

DocA1 == <<Delim, KV("title", YStr(TitleA)), Delim, Text("Hello")>>
DocA2 == <<Delim, KV("title", YStr(TitleA)), KV("published", YBool(TRUE)), Delim, Text("World")>>
DocB == <<Delim, KV("title", YStr(TitleB)), KV("date", YStr(GoodDate)), Delim, Text("Hello")>>
DocNoBlock == <<Text("Hello")>>
DocNoTitle == <<Delim, KV("tags", YStr(TitleA)), Delim, Text("Hello")>>
DocIntTitle == <<Delim, KV("title", YInt(<<"1">>)), Delim, Text("Hello")>>
DocBadDate == <<Delim, KV("title", YStr(TitleA)), KV("date", YStr(BadDate)), Delim, Text("Hello")>>

\* a directory entry of the walk: Err (ok = FALSE) or a path, with what
\* reading it gives
File(ext, content) ==
    [ok |-> TRUE, is_dir |-> FALSE, ext |-> Some(ext), readable |-> TRUE, content |-> content]
WalkError ==
    [ok |-> FALSE, is_dir |-> FALSE, ext |-> None, readable |-> FALSE, content |-> <<>>]
Directory ==
    [ok |-> TRUE, is_dir |-> TRUE, ext |-> Some("md"), readable |-> FALSE, content |-> <<>>]
Unreadable ==
    [ok |-> TRUE, is_dir |-> FALSE, ext |-> Some("md"), readable |-> FALSE, content |-> <<>>]

Entries ==
    {WalkError, Directory, Unreadable, File("txt", DocA1),
     File("md", DocA1), File("markdown", DocA2), File("md", DocB),
     File("md", DocNoBlock), File("md", DocIntTitle), File("md", DocBadDate)}

SeqsUpTo(S, n) == UNION {[1..m -> S] : m \in 0..n}

\* the account's articles as the GET returns them; ids are distinct
Article(id, title, body) == [id |-> id, title |-> title, body_markdown |-> body]
ArticlesAt(i) ==
    {Article(6 + i, TitleA, DocA1), Article(6 + i, TitleA, <<Text("Hello")>>),
     Article(6 + i, TitleB, <<Text("Hello")>>)}
Indexes ==
    {ix \in SeqsUpTo(UNION {ArticlesAt(i) : i \in 1..MaxArticles}, MaxArticles) :
        \A i \in DOMAIN ix : ix[i] \in ArticlesAt(i)}

\* ------------------------------------------------------------------- state
VARIABLES
    entries,     \* what WalkDir yields, in walk order
    dryrun,      \* Push.dryrun
    pc,          \* position of run
    result,      \* "running", "ok", or the error run returned
    articles,    \* the fetched index
    hasher,      \* the Sha256 shared by the iterations
    idx,         \* position of the current entry in entries
    content,     \* locals of the iteration
    meta,
    status,
    retries,     \* backoffs used by the current again::retry
    attempts,    \* requests sent by the current put / post
    answered,    \* the current put / post got an HTTP response
    resp,        \* status of the response being handled
    gets,        \* index GETs sent
    reads,       \* positions of the entries read so far
    lines,       \* status lines printed
    requests,    \* the distinct POST / PUT requests sent
    used,        \* positions whose put / post returned Ok on its last attempt
    logs         \* other messages printed

vars == <<entries, dryrun, pc, result, articles, hasher, idx, content, meta, status,
          retries, attempts, answered, resp, gets, reads, lines, requests, used, logs>>

inputs == <<entries, dryrun>>
locals == <<content, meta, status>>
call == <<retries, attempts, answered, resp>>
history == <<gets, reads, lines, requests, used, logs>>

Init ==
    /\ entries \in SeqsUpTo(Entries, MaxEntries)
    /\ dryrun \in BOOLEAN
    /\ pc = "fetch"
    /\ result = "running"
    /\ articles = <<>>
    /\ hasher = NewHasher
    /\ idx = 0
    /\ content = <<>>
    /\ meta = DefaultFrontmatter
    /\ status = NoStatus
    /\ retries = 0
    /\ attempts = 0
    /\ answered = FALSE
    /\ resp = "none"
    /\ gets = 0
    /\ reads = {}
    /\ lines = <<>>
    /\ requests = {}
    /\ used = {}
    /\ logs = <<>>

\* run returns Err(e): `?`
Abort(e) ==
    /\ pc' = "done"
    /\ result' = e

\* the end of an iteration of the for loop: its locals are dropped
NextIteration ==
    /\ pc' = "walk"
    /\ content' = <<>>
    /\ meta' = DefaultFrontmatter
    /\ status' = NoStatus

\* mutant: a failed fetch is tried again
FetchRetrying ==
    /\ pc = "fetch"
    /\ gets' = gets + 1
    /\ \/ UNCHANGED <<articles, pc>>
       \/ \E fetched \in Indexes :
            /\ articles' = fetched
            /\ pc' = "walk"
    /\ hasher' = NewHasher
    /\ UNCHANGED <<inputs, result, idx, locals, call, reads, lines, requests, used, logs>>

\* fetch(&client, &api_key).await?  and  Sha256::new()
Fetch ==
    /\ pc = "fetch"
    /\ gets' = gets + 1
    /\ \/ \E e \in {"fetch_transport", "fetch_status", "fetch_json"} :
            /\ Abort(e)
            /\ UNCHANGED articles
       \/ \E fetched \in Indexes :
            /\ articles' = fetched
            /\ pc' = "walk"
            /\ UNCHANGED result
    /\ hasher' = NewHasher
    /\ UNCHANGED <<inputs, idx, locals, call, reads, lines, requests, used, logs>>

\* the iterator: filter_map(|e| e.ok()...) and filter(valid_path) drop an entry
SkipEntry ==
    /\ pc = "walk"
    /\ idx < Len(entries)
    /\ ~(entries[idx + 1].ok /\ valid_path(entries[idx + 1]))
    /\ idx' = idx + 1
    /\ UNCHANGED <<inputs, pc, result, articles, hasher, locals, call, history>>

\* fs::read_to_string(&path)?
ReadFile ==
    /\ pc = "walk"
    /\ idx < Len(entries)
    /\ entries[idx + 1].ok /\ valid_path(entries[idx + 1])
    /\ idx' = idx + 1
    /\ reads' = reads \cup {idx + 1}
    /\ IF entries[idx + 1].readable
       THEN /\ content' = entries[idx + 1].content
            /\ pc' = "extract"
            /\ UNCHANGED result
       ELSE /\ Abort("io")
            /\ UNCHANGED content
    /\ UNCHANGED <<inputs, articles, hasher, meta, status, call,
                   gets, lines, requests, used, logs>>

\* the iterator is exhausted: Ok(())
Finish ==
    /\ pc = "walk"
    /\ idx = Len(entries)
    /\ pc' = "done"
    /\ result' = "ok"
    /\ UNCHANGED <<inputs, articles, hasher, idx, locals, call, history>>

\* mutant: a file whose frontmatter is rejected is skipped
ExtractSkipping ==
    /\ pc = "extract"
    /\ LET r == extract(content)
       IN IF r.ok
          THEN /\ meta' = r.fm
               /\ pc' = "classify"
               /\ UNCHANGED <<content, status, logs>>
          ELSE /\ NextIteration
               /\ logs' = Append(logs, [k |-> idx, msg |-> "Error extracting front matter"])
    /\ UNCHANGED <<inputs, result, articles, hasher, idx, call,
                   gets, reads, lines, requests, used>>

\* let (meta, _) = extract(name.as_ref(), &content)?
Extract ==
    /\ pc = "extract"
    /\ LET r == extract(content)
       IN /\ IF r.ok
             THEN /\ meta' = r.fm
                  /\ pc' = "classify"
                  /\ UNCHANGED result
             ELSE /\ Abort(r.err)
                  /\ UNCHANGED meta
          /\ logs' = IF r.err = "scan_error"
                     THEN Append(logs, [k |-> idx, msg |-> "Error extracting front matter"])
                     ELSE logs
    /\ UNCHANGED <<inputs, articles, hasher, idx, content, status, call,
                   gets, reads, lines, requests, used>>

\* mutant: the index is fetched anew for every file
ClassifyRefetching ==
    /\ pc = "classify"
    /\ \E fetched \in Indexes :
          /\ articles' = fetched
          /\ LET c == classify(hasher, fetched, content, meta)
             IN /\ status' = c.status
                /\ hasher' = c.hasher
    /\ pc' = "print"
    /\ UNCHANGED <<inputs, result, idx, content, meta, call, history>>

\* let status = match articles.iter().find(..) { .. }
Classify ==
    /\ pc = "classify"
    /\ LET c == classify(hasher, articles, content, meta)
       IN /\ status' = c.status
          /\ hasher' = c.hasher
    /\ pc' = "print"
    /\ UNCHANGED <<inputs, result, articles, idx, content, meta, call, history>>

\* println!("{}{}{}", title, padding, [status publish_status])
PrintStatus ==
    /\ pc = "print"
    /\ lines' = Append(lines, [k |-> idx, title |-> meta.title, status |-> status,
                               publish |-> publish_status(meta)])
    /\ pc' = "upload"
    /\ UNCHANGED <<inputs, result, articles, hasher, idx, locals, call,
                   gets, reads, requests, used, logs>>

\* mutant: one retry policy is shared by all calls, its backoffs not renewed
EndCallKeepingRetries ==
    /\ retries' = retries
    /\ attempts' = 0
    /\ answered' = FALSE
    /\ resp' = "none"

\* the end of put / post: the state of its again::retry is dropped
EndCall ==
    /\ retries' = 0
    /\ attempts' = 0
    /\ answered' = FALSE
    /\ resp' = "none"

\* mutant: the write is issued but not awaited
UploadDetached ==
    /\ pc = "upload"
    /\ IF writes(dryrun, status)
       THEN /\ requests' = requests \cup {request(idx, status, content)}
            /\ attempts' = attempts + 1
       ELSE UNCHANGED <<requests, attempts>>
    /\ NextIteration
    /\ UNCHANGED <<inputs, result, articles, hasher, idx, retries, answered, resp,
                   gets, reads, lines, used, logs>>

\* if !dryrun { match status { .. } }: put / post is called, or nothing is
Upload ==
    /\ pc = "upload"
    /\ IF writes(dryrun, status)
       THEN /\ pc' = "send"
            /\ UNCHANGED locals
       ELSE NextIteration
    /\ UNCHANGED <<inputs, result, articles, hasher, idx, call, history>>

\* an attempt returned Err: again::retry repeats it or gives the error up to
\* run, which returns it (`.await?`)
AttemptFailed ==
    /\ resp' = "none"
    /\ IF retry_again(retries)
       THEN /\ retries' = retries + 1
            /\ pc' = "send"
            /\ UNCHANGED result
       ELSE /\ Abort("upload_transport")
            /\ UNCHANGED retries

\* mutant: a failed send is repeated without end
SendForever ==
    /\ pc = "send"
    /\ requests' = requests \cup {request(idx, status, content)}
    /\ attempts' = 1 + (attempts % (MaxRetries + 1))
    /\ \/ /\ resp' = "none"
          /\ pc' = "send"
          /\ UNCHANGED <<result, retries, answered>>
       \/ \E st \in {"success", "failure"} :
            /\ resp' = st
            /\ answered' = TRUE
            /\ pc' = "resp"
            /\ UNCHANGED <<result, retries>>
    /\ UNCHANGED <<inputs, articles, hasher, idx, locals, gets, reads, lines, used, logs>>

\* client.post(..) / client.put(..) .json(..).send().await?
Send ==
    /\ pc = "send"
    /\ requests' = requests \cup {request(idx, status, content)}
    /\ attempts' = attempts + 1
    /\ \/ /\ AttemptFailed
          /\ UNCHANGED answered
       \/ \E st \in {"success", "failure"} :
            /\ resp' = st
            /\ answered' = TRUE
            /\ pc' = "resp"
            /\ UNCHANGED <<result, retries>>
    /\ UNCHANGED <<inputs, articles, hasher, idx, locals, gets, reads, lines, used, logs>>

\* the attempt, and with it put / post, returns Ok(()) to run
ReturnOk ==
    /\ used' = IF retry_again(retries) THEN used ELSE used \cup {idx}
    /\ EndCall
    /\ NextIteration
    /\ UNCHANGED result

\* mutant: a non-success status is an error of the attempt (error_for_status()?)
RespondErrorForStatus ==
    /\ pc = "resp"
    /\ IF resp = "success"
       THEN /\ logs' = Append(logs, [k |-> idx, msg |-> "was successful"])
            /\ ReturnOk
       ELSE /\ AttemptFailed
            /\ UNCHANGED <<locals, attempts, answered, used, logs>>
    /\ UNCHANGED <<inputs, articles, hasher, idx, gets, reads, lines, requests>>

\* if !resp.status().is_success() { .. resp.text().await .. }
\* else { println!("Post was successful") }  Ok(())
Respond ==
    /\ pc = "resp"
    /\ IF resp = "success"
       THEN /\ logs' = Append(logs, [k |-> idx, msg |-> "was successful"])
            /\ ReturnOk
       ELSE /\ pc' = "text"
            /\ UNCHANGED <<result, locals, call, used, logs>>
    /\ UNCHANGED <<inputs, articles, hasher, idx, gets, reads, lines, requests>>

\* println!("Dev.to error: {:#?} {}", resp.status(), resp.text().await?)  Ok(())
\* the body arrives and the error is printed, or reading it fails (`?`)
ReadText ==
    /\ pc = "text"
    /\ \/ /\ logs' = Append(logs, [k |-> idx, msg |-> "Dev.to error"])
          /\ ReturnOk
       \/ /\ AttemptFailed
          /\ UNCHANGED <<logs, locals, attempts, answered, used>>
    /\ UNCHANGED <<inputs, articles, hasher, idx, gets, reads, lines, requests>>

Next ==
    \/ Fetch
    \/ SkipEntry
    \/ ReadFile
    \/ Finish
    \/ Extract
    \/ Classify
    \/ PrintStatus
    \/ Upload
    \/ Send
    \/ Respond
    \/ ReadText

Spec == Init /\ [][Next]_vars

\* ------------------------------------------------- extract on its own
\* the lines a metadata block is drawn from
BlockLines ==
    {KV("title", YStr(TitleA)), KV("title", YInt(<<"1">>)), KV("title", YArr),
     KV("date", YStr(GoodDate)), KV("date", YStr(BadDate)), KV("date", YInt(<<"2", "0", "2", "1">>)),
     KV("published", YBool(TRUE)), KV("published", YBool(FALSE)), KV("tags", YStr(TitleB)),
     Scalar(YStr(TitleA)), Junk}

\* documents: a closed block and a body, a block never closed, no delimiter
\* at all, and a delimiter that is not at the start
ExtractInputs ==
    UNION {{<<Delim>> \o b \o <<Delim, Text("Hello")>>,
            <<Delim>> \o b,
            b \o <<Text("Hello")>>,
            <<Text("Hello"), Delim>> \o b \o <<Delim>>} : b \in SeqsUpTo(BlockLines, MaxBlock)}

\* run has fetched an empty index and read the only file of the directory
InitExtract ==
    /\ content \in ExtractInputs
    /\ entries = <<File("md", content)>>
    /\ dryrun \in BOOLEAN
    /\ pc = "extract"
    /\ result = "running"
    /\ articles = <<>>
    /\ hasher = NewHasher
    /\ idx = 1
    /\ meta = DefaultFrontmatter
    /\ status = NoStatus
    /\ retries = 0
    /\ attempts = 0
    /\ answered = FALSE
    /\ resp = "none"
    /\ gets = 1
    /\ reads = {1}
    /\ lines = <<>>
    /\ requests = {}
    /\ used = {}
    /\ logs = <<>>

SpecExtract == InitExtract /\ [][Extract]_vars

\* every awaited operation of run eventually completes or fails: a step is
\* taken as long as one is possible
FairRuns ==
    {<<WalkError, File("md", DocA2)>>, <<File("markdown", DocA1), Unreadable>>,
     <<Directory, File("md", DocNoBlock)>>, <<File("md", DocB), File("txt", DocA1)>>}

InitFair ==
    /\ entries \in FairRuns
    /\ dryrun \in BOOLEAN
    /\ pc = "fetch"
    /\ result = "running"
    /\ articles = <<>>
    /\ hasher = NewHasher
    /\ idx = 0
    /\ content = <<>>
    /\ meta = DefaultFrontmatter
    /\ status = NoStatus
    /\ retries = 0
    /\ attempts = 0
    /\ answered = FALSE
    /\ resp = "none"
    /\ gets = 0
    /\ reads = {}
    /\ lines = <<>>
    /\ requests = {}
    /\ used = {}
    /\ logs = <<>>

SpecFair == InitFair /\ [][Next]_vars /\ WF_vars(Next)

\* ------------------------------------------------------- a second run
\* the articles of the remote after it stored the writes of the files at the
\* positions ks: the body of a PUT replaces that of the article of its id, a
\* POST adds an article of the title in the frontmatter of its body, twice for
\* the positions in `twice` (an attempt that failed in transport may have
\* reached the remote before the attempt that succeeded)
RECURSIVE Store(_, _, _)
Store(arts, ks, twice) ==
    IF ks = {} THEN arts
    ELSE LET k == Min(ks)
             r == CHOOSE r \in requests : r.k = k
             new(n) == Article(6 + n, extract(r.body_markdown).fm.title, r.body_markdown)
             one == Append(arts, new(Len(arts) + 1))
             stored ==
                 IF r.method = "PUT"
                 THEN [i \in DOMAIN arts |->
                          IF arts[i].id = r.id
                          THEN [arts[i] EXCEPT !.body_markdown = r.body_markdown]
                          ELSE arts[i]]
                 ELSE IF k \in twice THEN Append(one, new(Len(one) + 1)) ELSE one
         IN Store(stored, ks \ {k}, twice)

\* the files of the run that ended have pairwise distinct titles
DistinctTitles ==
    \A j, k \in reads :
        j # k => extract(entries[j].content).fm.title # extract(entries[k].content).fm.title
\* the positions for which a write was sent
Written == {r.k : r \in requests}
\* every write of the run that ended was answered with a success status
AllWritesSucceeded ==
    \A k \in Written : \E i \in DOMAIN logs : logs[i] = [k |-> k, msg |-> "was successful"]

\* run is called again on the same files after a run outside dry-run that
\* completed with every write successful: its fetch returns what the remote
\* stored
Rerun ==
    /\ pc = "done" /\ result = "ok"
    /\ ~dryrun /\ gets = 1
    /\ DistinctTitles /\ AllWritesSucceeded
    /\ \E twice \in SUBSET {r.k : r \in {q \in requests : q.method = "POST"}} :
          articles' = Store(articles, Written, twice)
    /\ gets' = gets + 1
    /\ hasher' = NewHasher
    /\ pc' = "walk"
    /\ result' = "running"
    /\ idx' = 0
    /\ reads' = {}
    /\ lines' = <<>>
    /\ requests' = {}
    /\ used' = {}
    /\ logs' = <<>>
    /\ UNCHANGED <<inputs, locals, call>>

NextTwice == Next \/ Rerun
SpecTwice == Init /\ [][NextTwice]_vars

\* ------------------------------------------------- the walk over named paths
PathFile(name) ==
    [ok |-> TRUE, is_dir |-> FALSE, ext |-> extension(name), readable |-> TRUE,
     content |-> DocA1, name |-> name]
PathDir(name) ==
    [ok |-> TRUE, is_dir |-> TRUE, ext |-> extension(name), readable |-> FALSE,
     content |-> <<>>, name |-> name]
PathError ==
    [ok |-> FALSE, is_dir |-> FALSE, ext |-> None, readable |-> FALSE,
     content |-> <<>>, name |-> <<>>]

PathNames ==
    {<<"foo">>, <<"foo", ".", "md">>, <<"foo", ".", "markdown">>, <<"foo", ".", "txt">>,
     <<"foo", ".", "MD">>, <<".", "md">>, <<"foo", ".", "md", ".", "txt">>}
PathEntries ==
    {PathFile(n) : n \in PathNames} \cup {PathDir(<<"foo", ".", "md">>), PathDir(<<"foo">>), PathError}

InitPath ==
    /\ entries \in SeqsUpTo(PathEntries, MaxEntries)
    /\ dryrun \in BOOLEAN
    /\ pc = "fetch"
    /\ result = "running"
    /\ articles = <<>>
    /\ hasher = NewHasher
    /\ idx = 0
    /\ content = <<>>
    /\ meta = DefaultFrontmatter
    /\ status = NoStatus
    /\ retries = 0
    /\ attempts = 0
    /\ answered = FALSE
    /\ resp = "none"
    /\ gets = 0
    /\ reads = {}
    /\ lines = <<>>
    /\ requests = {}
    /\ used = {}
    /\ logs = <<>>

SpecPath == InitPath /\ [][Next]_vars

\* ------------------------------------------------------------------ claims
LinesOf(k) == {i \in DOMAIN lines : lines[i].k = k}
RequestsOf(k) == {r \in requests : r.k = k}
\* the iteration of entry k is past the point where it calls put / post
PastUpload(k) == idx > k \/ (idx = k /\ pc \in {"resp", "text", "walk", "done"})
Finished == pc = "done" /\ result = "ok"
Aborted == pc = "done" /\ result # "ok"

\* C1: a POST or PUT is sent for a file iff dry-run is off and the file's
\* decision is not NoOp; a Create sends only POSTs, an Update(id) only PUTs to
\* that id; nothing is sent in a dry-run or for a NoOp file.
C1_WriteIffNotDryRunAndNotNoOp ==
    /\ \A r \in requests :
          /\ ~dryrun
          /\ LinesOf(r.k) # {}
          /\ \A i \in LinesOf(r.k) :
                /\ lines[i].status.kind # "Uploaded"
                /\ lines[i].status.kind = "Posting" => r.method = "POST"
                /\ lines[i].status.kind = "Syncing" =>
                      r.method = "PUT" /\ r.id = lines[i].status.id
    /\ \A i \in DOMAIN lines :
          (~dryrun /\ lines[i].status.kind # "Uploaded" /\ PastUpload(lines[i].k))
              => RequestsOf(lines[i].k) # {}

\* a run that sent a PUT for one file and nothing for a NoOp file
C1_Witness ==
    /\ Finished
    /\ \E r \in requests : r.method = "PUT"
    /\ \E i \in DOMAIN lines : lines[i].status.kind = "Uploaded" /\ RequestsOf(lines[i].k) = {}

\* C2: classify gives Create iff no article has the document's title; else,
\* with the first article of that title, NoOp iff the digest of the raw
\* content equals the digest of its body_markdown and Update(its id) otherwise.
C2_ClassifyByFirstTitleMatch ==
    pc = "print" =>
        LET same == {i \in DOMAIN articles : articles[i].title = meta.title}
        IN IF same = {}
           THEN status.kind = "Posting"
           ELSE \E f \in same :
                  /\ \A j \in same : f <= j
                  /\ IF Sha256(content) = Sha256(articles[f].body_markdown)
                     THEN status.kind = "Uploaded"
                     ELSE status.kind = "Syncing" /\ status.id = articles[f].id

\* two articles of the document's title, the first differing from it and the
\* second equal to it: Update(id of the first)
C2_Witness ==
    /\ pc = "print"
    /\ Len(articles) >= 2
    /\ articles[1].title = meta.title /\ articles[2].title = meta.title
    /\ articles[1].body_markdown # content /\ articles[2].body_markdown = content
    /\ status = Syncing(articles[1])

FetchErrors == {"fetch_transport", "fetch_status", "fetch_json"}

\* C3: the index is fetched exactly once, before any file is read or
\* classified, and never again; a failed fetch aborts the run with no file
\* read, classified or written.
C3_FetchOnceFirstNoRetry ==
    /\ gets <= 1
    /\ pc # "fetch" => gets = 1
    /\ pc = "fetch" => (reads = {} /\ lines = <<>> /\ requests = {} /\ idx = 0)
    /\ result \in FetchErrors =>
          (pc = "done" /\ reads = {} /\ lines = <<>> /\ requests = {} /\ idx = 0)

\* the fetch failed with a readable markdown file waiting in the directory
C3_Witness ==
    /\ Aborted /\ result = "fetch_status" /\ gets = 1
    /\ Len(entries) >= 1 /\ entries[1] = File("md", DocA1)

\* C4: a create or update that received a non-success status does not abort
\* the run: the failure is logged and the run goes on with the next file.
C4_NonSuccessStatusNeverAborts ==
    answered => ~Aborted

\* C5: when the network failures of one create / update exceed the retry
\* bound, the failure is not fatal: the run is not aborted by it.
C5_ExhaustedRetriesNotFatal ==
    result # "upload_transport"

\* C6: a create / update that fails N-1 times and then succeeds, N within the
\* attempts of the policy, returns success and the run continues; each call
\* starts with the whole budget, whatever earlier calls used.
C6_RetryBudgetPerCall ==
    /\ [][(pc = "resp" /\ resp = "success") =>
             (pc' = "walk" /\ result' = "running"
              /\ logs' = Append(logs, [k |-> idx, msg |-> "was successful"]))]_vars
    /\ [][(pc = "upload" /\ pc' = "send") => (retries' = 0 /\ attempts' = 0)]_vars
    /\ [][(pc \in {"send", "text"} /\ retries < MaxRetries) => pc' # "done"]_vars

\* two calls in a row returned Ok on their last attempt
C6_Witness ==
    pc = "walk" /\ result = "running" /\ used = {1, 2}

\* C7 as stated: once an attempt got an HTTP response, whatever its status,
\* no further request is sent for that file.
C7_NoRequestAfterResponse ==
    [][answered => attempts' <= attempts]_vars

\* C7 amended: only errors of the request are retried. Receiving a status
\* never leads to another request by itself; after a success status, or a
\* non-success status whose body was read and printed, none is sent; a request
\* is sent again only after send or the reading of the body failed. The fetch
\* is sent once, and a read, validation or fetch error ends the run.
C7_RetryOnlyAfterRequestError ==
    /\ [][pc = "resp" => (pc' \in {"walk", "text"} /\ attempts' \in {0, attempts})]_vars
    /\ [][(pc = "text" /\ logs' # logs) => (pc' = "walk" /\ attempts' = 0)]_vars
    /\ [][attempts' > attempts => (pc = "send" /\ attempts = retries /\ resp = "none")]_vars
    /\ [](gets <= 1)
    /\ [][pc # "done"]_vars
    /\ [][(result' \notin {"running", "ok", "upload_transport"}) => pc' = "done"]_vars

\* a second request of one call has been answered with a non-success status
C7_Witness ==
    pc = "text" /\ answered /\ attempts = 2 /\ retries = 1

\* an entry that passes the filter and cannot be read, or whose frontmatter
\* extract rejects
BadFile(k) ==
    /\ entries[k].ok /\ valid_path(entries[k])
    /\ ~entries[k].readable \/ ~extract(entries[k].content).ok

\* C8: when file k cannot be read or its frontmatter is rejected, the run
\* aborts there: no status line and no write for k or a later file; the
\* writes of earlier files stay.
C8_FailFast ==
    /\ [](\A k \in reads : BadFile(k) =>
            /\ idx = k
            /\ pc \in {"extract", "done"}
            /\ pc = "done" => Aborted
            /\ reads \subseteq 1..k
            /\ \A i \in DOMAIN lines : lines[i].k < k
            /\ \A r \in requests : r.k < k)
    /\ [][requests \subseteq requests']_vars

\* the run aborted at the second file after a write for the first
C8_Witness ==
    /\ Aborted /\ idx = 2 /\ BadFile(2)
    /\ RequestsOf(1) # {}

\* a metadata mapping without a string title, or with a date string that is
\* no timestamp
InvalidFrontmatter(c) ==
    LET p == parse_and_find_content(c)
    IN /\ p.ok /\ p.front # None /\ p.front[1].t = "Hash"
       /\ \/ \A i \in DOMAIN p.front[1].h :
                ~(p.front[1].h[i].key = "title" /\ p.front[1].h[i].val.t = "String")
          \/ \E i \in DOMAIN p.front[1].h :
                /\ p.front[1].h[i].key = "date" /\ p.front[1].h[i].val.t = "String"
                /\ ~parse_from_rfc3339_ok(p.front[1].h[i].val.s)

Closing(c) == {j \in 2..Len(c) : c[j].kind = "delim"}
HasBlock(c) == Len(c) >= 1 /\ c[1].kind = "delim" /\ Closing(c) # {}
BlockOf(c) == SubSeq(c, 2, Min(Closing(c)) - 1)
IsMapping(b) == b # <<>> /\ \A i \in DOMAIN b : b[i].kind = "kv"
IsYamlValue(b) == b = <<>> \/ (Len(b) = 1 /\ b[1].kind \in {"scalar", "text"})
HasStringTitle(b) == \E i \in DOMAIN b : b[i].key = "title" /\ b[i].val.t = "String"
Rejected(e) == pc = "done" /\ result = e /\ meta = DefaultFrontmatter

HasKey(b, k) == \E i \in DOMAIN b : b[i].key = k
LastVal(b, k) == b[Max({i \in DOMAIN b : b[i].key = k})].val
StringTitled(c) ==
    /\ HasBlock(c) /\ IsMapping(BlockOf(c))
    /\ HasKey(BlockOf(c), "title") /\ LastVal(BlockOf(c), "title").t = "String"

\* C11: for a mapping with a string title, extract fails with the invalid-date
\* error whenever `date` is present with a value, of whatever YAML type, that
\* is no RFC-3339 timestamp, and succeeds carrying the date when it is one.
C11_InvalidDateAnyType ==
    (pc # "extract" /\ StringTitled(content) /\ HasKey(BlockOf(content), "date")) =>
        LET d == LastVal(BlockOf(content), "date")
        IN IF d.t = "String" /\ parse_from_rfc3339_ok(d.s)
           THEN pc = "classify" /\ meta.date = Some(d.s)
           ELSE Rejected("invalid_date")

\* C12: a block holding only a string title gives a Frontmatter with that
\* title and every optional field absent; the publish status is Published iff
\* `published` is present and true, Draft when it is absent or false.
C12_OptionalFieldsDefault ==
    /\ (pc # "extract" /\ StringTitled(content) /\ Len(BlockOf(content)) = 1) =>
          /\ pc = "classify"
          /\ meta = [DefaultFrontmatter EXCEPT !.title = BlockOf(content)[1].val.s]
          /\ publish_status(meta) = "Draft"
    /\ pc = "classify" =>
          (publish_status(meta) = "Published"
              <=> /\ HasKey(BlockOf(content), "published")
                  /\ LastVal(BlockOf(content), "published") = YBool(TRUE))

\* a title-only block was accepted, and is a draft
C12_Witness ==
    /\ pc = "classify"
    /\ HasBlock(content) /\ BlockOf(content) = <<KV("title", YStr(TitleA))>>
    /\ meta.title = TitleA /\ meta.published = None /\ meta.date = None
    /\ publish_status(meta) = "Draft"

\* the file name ends with a dot and md or markdown
EndsInMd(name) ==
    Len(name) >= 2 /\ name[Len(name) - 1] = "." /\ name[Len(name)] \in {"md", "markdown"}
\* the positions of the entries the run touched
Touched == reads \cup {lines[i].k : i \in DOMAIN lines} \cup {r.k : r \in requests}

\* C13 as stated: an entry is a candidate iff it is no directory and its path
\* ends .md or .markdown; only candidates are read, classified or uploaded.
C13_PathEndingMdAccepted ==
    /\ \A k \in 1..idx :
          k \in reads <=> (entries[k].ok /\ ~entries[k].is_dir /\ EndsInMd(entries[k].name))
    /\ Touched \subseteq reads

\* C13 amended: an entry is a candidate iff it is no directory and its
\* extension is exactly md or markdown, the extension being what follows
\* the last dot of a file name that has something before that dot (a file
\* named ".md" has no extension); only candidates are read, classified or
\* uploaded.
C13_ExtensionMdAccepted ==
    /\ \A k \in 1..idx :
          k \in reads <=>
              /\ entries[k].ok /\ ~entries[k].is_dir
              /\ EndsInMd(entries[k].name) /\ Len(entries[k].name) >= 3
    /\ Touched \subseteq reads

\* a directory named foo.md was passed over and the file foo.markdown uploaded
C13_Witness ==
    /\ Finished /\ Len(entries) = 2
    /\ entries[1] = PathDir(<<"foo", ".", "md">>) /\ 1 \notin Touched
    /\ entries[2] = PathFile(<<"foo", ".", "markdown">>) /\ RequestsOf(2) # {}

\* a step in which an error occurs: the walk yields an error entry, a file
\* cannot be read, its frontmatter is rejected, the index fetch fails, a
\* write is given up after its last attempt failed in transport, or the body
\* of a response with a non-success status has been read
ErrorEvent ==
    \/ pc = "walk" /\ idx' = idx + 1 /\ ~entries[idx'].ok
    \/ pc = "walk" /\ idx' = idx + 1 /\ idx' \in reads' /\ ~entries[idx'].readable
    \/ pc = "extract" /\ ~extract(content).ok
    \/ pc = "fetch" /\ pc' # "walk"
    \/ pc = "send" /\ pc' = "done"
    \/ pc = "text" /\ pc' = "walk"

\* C14: every error event either aborts the run with that error or is
\* followed by a diagnostic message before the run continues.
C14_NoErrorSwallowed ==
    [][ErrorEvent => \/ pc' = "done" /\ result' \notin {"running", "ok"}
                     \/ Len(logs') > Len(logs)]_vars

\* no call of put / post is under way
NoCall == retries = 0 /\ attempts = 0 /\ ~answered /\ resp = "none"

\* C15: files are processed one after the other: a file is read only when no
\* write is under way and the locals of the previous file are gone, every
\* request is for the file read last, and a file's status line is printed
\* before its write is issued.
C15_Sequential ==
    [][/\ reads' # reads =>
             /\ pc = "walk" /\ NoCall
             /\ content = <<>> /\ status = NoStatus
             /\ reads' = reads \cup {idx'} /\ \A k \in Touched : k < idx'
       /\ ~NoCall' => pc' \in {"send", "resp", "text", "done"}
       /\ \A r \in requests' \ requests : r.k = idx /\ \A k \in reads : k <= idx
       /\ pc' \in {"send", "resp", "text"} =>
             /\ idx' \in reads'
             /\ \E i \in DOMAIN lines' : lines'[i].k = idx' /\ i = Len(lines')]_vars

\* the second file is being written after the write of the first one needed
\* all its attempts
C15_Witness ==
    /\ idx = 2 /\ pc = "resp" /\ 1 \in used
    /\ RequestsOf(1) # {} /\ RequestsOf(2) # {} /\ LinesOf(2) # {}

\* the positions of the fetched articles whose title is that of file k
SameTitle(k) ==
    {i \in DOMAIN articles : articles[i].title = extract(entries[k].content).fm.title}

\* C16: every request sent for a file carries the whole content of the file,
\* frontmatter block included, the same on every attempt; a PUT goes to the
\* id of the first fetched article that has the file's title. (The request
\* of a file enters `requests` with the first attempt of its call; a later
\* attempt that differed would add a second one.)
C16_BodyIsRawContent ==
    /\ \A r \in requests :
          /\ r.body_markdown = entries[r.k].content
          /\ r.k <= idx
    /\ \A k \in 1..idx : Cardinality(RequestsOf(k)) <= 1
    /\ attempts = 1 =>
          \A r \in RequestsOf(idx) :
              /\ HasBlock(r.body_markdown)
              /\ r.body_markdown # extract(entries[idx].content).back
              /\ r.method = "PUT" =>
                    /\ SameTitle(idx) # {}
                    /\ r.id = articles[Min(SameTitle(idx))].id

\* a PUT that needed all its attempts was sent for the first file
C16_Witness ==
    /\ 1 \in used
    /\ \E r \in RequestsOf(1) : r.method = "PUT" /\ r.id = articles[1].id
    /\ Len(articles) = 2 /\ articles[2].title = articles[1].title

\* the decision for the file at position k as a function of its content and
\* the fetched articles alone
Decision(k) ==
    IF SameTitle(k) = {} THEN Posting
    ELSE LET a == articles[Min(SameTitle(k))]
         IN IF entries[k].content = a.body_markdown THEN Uploaded ELSE Syncing(a)

\* C17: the shared hasher is empty before every digest computation, and the
\* decision printed for a file is a function of its content and the fetched
\* articles: the same whatever was processed before it, so that two files of
\* the same content get the same decision. (A line is checked when it has
\* just been printed; lines are only ever appended.)
C17_HistoryIndependent ==
    /\ pc \in {"walk", "extract", "classify"} => hasher = NewHasher
    /\ pc = "upload" =>
          /\ lines # <<>> /\ lines[Len(lines)].k = idx
          /\ lines[Len(lines)].status = Decision(idx)
    /\ \A i, j \in DOMAIN lines :
          entries[lines[i].k].content = entries[lines[j].k].content
              => lines[i].status = lines[j].status

\* a file classified NoOp after the digests of a file that matched an article
\* and differed from it went through the hasher
C17_Witness ==
    /\ Len(lines) = 2
    /\ lines[1].status.kind = "Syncing" /\ lines[2].status.kind = "Uploaded"
    /\ entries[lines[2].k].content = articles[1].body_markdown

\* files j and k have the same title, which no fetched article has
TwinCreates(j, k) ==
    /\ j # k
    /\ extract(entries[j].content).fm.title = extract(entries[k].content).fm.title
    /\ SameTitle(j) = {}

\* C18: no step after the fetch changes the fetched articles; at the end of a
\* run two files of one title that no fetched article has were both
\* classified Create, and outside a dry-run a POST was sent for each.
C18_SnapshotImmutable ==
    [][/\ pc # "fetch" => articles' = articles
       /\ Finished' =>
             \A j, k \in reads' : TwinCreates(j, k) =>
                 /\ \E i \in DOMAIN lines' :
                       lines'[i].k = k /\ lines'[i].status = Posting
                 /\ ~dryrun => \E r \in requests' : r.k = k /\ r.method = "POST"]_vars

\* two files of title A, which the index lacks, were both posted
C18_Witness ==
    /\ Finished /\ ~dryrun
    /\ entries = <<File("md", DocA1), File("markdown", DocA2)>>
    /\ TwinCreates(1, 2)
    /\ \A k \in {1, 2} : \E r \in requests : r.k = k /\ r.method = "POST"
    /\ \A i \in DOMAIN lines : lines[i].status = Posting

\* C19: when every request is eventually answered or fails, the run ends,
\* after the last file or at its first fatal error, and no call of put / post
\* makes more attempts than the retry policy allows.
C19_Terminates ==
    /\ <>(pc = "done" /\ result # "running")
    /\ [](attempts <= MaxRetries + 1)

\* the run ended after every attempt of a write had failed
C19_Witness ==
    /\ pc = "done" /\ result = "upload_transport"
    /\ attempts = MaxRetries + 1 /\ retries = MaxRetries /\ ~answered

\* C20: in a run that follows a run outside dry-run whose writes all
\* succeeded, over unchanged files of pairwise distinct titles and with a
\* remote that stored the bodies as sent, every file is classified NoOp and
\* no write is sent.
C20_SecondRunIsNoOp ==
    gets = 2 =>
        /\ requests = {}
        /\ \A i \in DOMAIN lines : lines[i].status = Uploaded
        /\ pc \notin {"send", "resp", "text"}
        /\ pc = "done" => /\ result = "ok"
                          /\ \A k \in reads : LinesOf(k) # {}

\* the second run ended after a create and an update of the first run
C20_Witness ==
    /\ gets = 2 /\ Finished /\ Len(lines) = 2
    /\ \E i \in DOMAIN articles : articles[i].id = 7 /\ articles[i].body_markdown = entries[1].content
    /\ \E i \in DOMAIN articles : articles[i].id > 7 /\ articles[i].body_markdown = entries[2].content
    /\ Len(articles) = 3

====
